---- MODULE Spec2Model ----
(***************************************************************************)
(* campus_yapper: a publish/subscribe broker kept in a relational store.   *)
(*                                                                         *)
(* The model follows src/campus_yapper/base.py and the two backends        *)
(* src/campus_yapper/backends/sqlite.py and .../postgres.py statement by   *)
(* statement.  Every SQL statement runs on a connection of its own in      *)
(* autocommit mode (_get_conn, _execute), so one statement is one atomic   *)
(* step and the statements of one call interleave with the statements of   *)
(* the other clients' calls.  The store is one shared database (a file for *)
(* SQLite, a server for PostgreSQL) used by every client.                  *)
(*                                                                         *)
(* Driver facts the backends rely on:                                      *)
(*  - sqlite3: cursor.fetchall() after a statement without a result set    *)
(*    gives []; a parameter of type dict cannot be bound                   *)
(*    (ProgrammingError); more parameters than placeholders is a           *)
(*    ProgrammingError; a missing table is an OperationalError.            *)
(*  - sqlite: INTEGER PRIMARY KEY without AUTOINCREMENT gives max(id)+1.   *)
(*  - psycopg2: cursor.fetchall() after a statement without a result set   *)
(*    raises ProgrammingError ("no results to fetch"); the statement has   *)
(*    already been committed (autocommit).                                 *)
(*  - PostgreSQL: a FOREIGN KEY must reference a primary key or a unique   *)
(*    constraint (InvalidForeignKey otherwise); BIGSERIAL draws from a     *)
(*    sequence that never goes back.                                       *)
(***************************************************************************)
EXTENDS Integers, Sequences, FiniteSets, Bags, TLC

VARIABLES
    environ,        \* os.environ: the variables create() reads
    kwargs,         \* the keyword arguments create() is called with
    created,        \* what create() returned or raised
    backend,        \* which backend class the clients of this store are
    db,             \* the shared store: tables, rows and the id sequence
    running,        \* YapperInterface._running, per client
    handlers,       \* YapperInterface._handlers, per client: label -> handler
    pc,             \* per client: the statement its current call is at
    call,           \* per client: the call in progress (op, label, data)
    event_id,       \* per client: emit's local event_id
    subscriptions,  \* per client: emit's local list of subscriber ids
    result,         \* per client: listen's fetched rows
    driver,         \* who decides the calls: any client at any time, or a test
    recent          \* the calls completed: all of a test, else the last step's

\* The variables of the factory function.
factory == <<environ, kwargs, created>>

vars == <<environ, kwargs, created, backend, db, running, handlers, pc, call, event_id, subscriptions,
          result, driver, recent>>

-----------------------------------------------------------------------------
(* Bounds                                                                  *)

\* Rows the event log may hold at once (SQLite) / ids the sequence may give
\* out (PostgreSQL).
MaxEvents == 2

Backends == {"sqlite", "postgres"}
Clients  == {"c1", "c2"}
Labels   == {"a", "b"}
Star     == "*"

-----------------------------------------------------------------------------
(* Python values: EventData and its stored form                            *)

NoneData  == [type |-> "NoneType", repr |-> "None"]
EmptyDict == [type |-> "dict", repr |-> "{}"]
X1Dict    == [type |-> "dict", repr |-> "{'x': 1}"]

\* The payloads a caller passes to emit.
Payloads == {NoneData, X1Dict}

\* The callables a client registers as handlers, and the value that stands
\* for no handler: a label that is no key of _handlers, a decorator that
\* was not applied.
H1 == [type |-> "function", repr |-> "h1"]
H2 == [type |-> "function", repr |-> "h2"]
Handlers  == {H1, H2}
NoHandler == NoneData

\* `data or {}`: None and the empty dict are falsy.
DataOrEmpty(data) ==
    IF data.type = "NoneType" \/ data = EmptyDict THEN EmptyDict ELSE data

\* str(data): a str holding the repr of the value; a str is left as it is.
Str(data) == [type |-> "str", repr |-> data.repr]

\* Event(label, data)
Event(label, data) == [label |-> label, data |-> data]

-----------------------------------------------------------------------------
(* The store                                                               *)

Tables == {"events", "subscriptions", "unread"}

EmptyDb ==
    [tables        |-> {},
     events        |-> {},        \* rows [id, label, data]
     subscriptions |-> EmptyBag,  \* bag of rows [client_id, label]
     unread        |-> {},        \* rows [client_id, label, event_id]
     seq           |-> 0]         \* PostgreSQL: last value of events_id_seq

\* What one statement gives back: the store after it, the error it raised
\* ("ok" for none), the rows it returned and whether it has a result set.
Reply(d, error, rows, hasResult) ==
    [db |-> d, error |-> error, rows |-> rows, hasResult |-> hasResult]

\* The error of a statement that names a table that does not exist.
NoTable == IF backend = "sqlite" THEN "OperationalError" ELSE "UndefinedTable"

Max(S) == CHOOSE x \in S : \A y \in S : y <= x

\* All the orders in which the rows of a set can come back.
RECURSIVE Orders(_)
Orders(S) ==
    IF S = {} THEN {<<>>}
    ELSE UNION {{<<x>> \o s : s \in Orders(S \ {x})} : x \in S}

\* CREATE TABLE IF NOT EXISTS <t>.  The unread table of the PostgreSQL
\* backend references subscriptions(client_id), which is no key of that
\* table.
SqlCreateTable(t) ==
    IF t \in db.tables THEN Reply(db, "ok", <<>>, FALSE)
    ELSE IF t = "unread" /\ backend = "postgres"
    THEN IF {"events", "subscriptions"} \subseteq db.tables
         THEN Reply(db, "InvalidForeignKey", <<>>, FALSE)
         ELSE Reply(db, NoTable, <<>>, FALSE)
    ELSE Reply([db EXCEPT !.tables = @ \cup {t}], "ok", <<>>, FALSE)

\* The id the store assigns to the next event row.
NextEventId ==
    IF backend = "sqlite"
    THEN IF db.events = {} THEN 1 ELSE Max({e.id : e \in db.events}) + 1
    ELSE db.seq + 1

\* INSERT INTO events (label, data) VALUES (?, ?) RETURNING id
SqlInsertEvent(label, data) ==
    IF "events" \notin db.tables THEN Reply(db, NoTable, <<>>, FALSE)
    ELSE LET id == NextEventId
         IN  Reply([db EXCEPT !.events = @ \cup {[id |-> id, label |-> label, data |-> data]},
                              !.seq = IF backend = "postgres" THEN id ELSE @],
                   "ok", <<[id |-> id]>>, TRUE)

\* The rows of the subscriptions table, one element per stored row.
SubscriptionRows ==
    UNION {{<<r, i>> : i \in 1..CopiesIn(r, db.subscriptions)} :
              r \in BagToSet(db.subscriptions)}

\* SELECT client_id FROM subscriptions WHERE label = ?   (the possible
\* replies: the statement has no ORDER BY)
SqlSelectSubscribers(label) ==
    IF "subscriptions" \notin db.tables THEN {Reply(db, NoTable, <<>>, FALSE)}
    ELSE {Reply(db, "ok", [i \in 1..Len(o) |-> [client_id |-> o[i][1].client_id]], TRUE) :
             o \in Orders({ri \in SubscriptionRows : ri[1].label = label})}

\* A parameter the driver can bind: sqlite3 binds int and str, not dict.
Bindable(v) == v.type \in {"int", "str"}

\* A marker insert that, when it fails, takes back the event row the
\* markers were for (a rollback of the whole emit).
SqlInsertUnreadRollback(params) ==
    IF "unread" \notin db.tables THEN Reply(db, NoTable, <<>>, FALSE)
    ELSE IF params = <<>> THEN Reply(db, "ok", <<>>, FALSE)
    ELSE Reply([db EXCEPT !.events =
                   {e \in @ : \A i \in 1..Len(params) : params[i][2].val # e.id}],
               "ProgrammingError", <<>>, FALSE)

\* INSERT INTO unread (client_id, event_id) VALUES (?, ?), run with
\* executemany over params, a sequence of <<client_id, event_id>>.  The
\* statement is prepared first, then each row is bound and inserted.  The
\* SQLite table has a label column, NOT NULL, that the statement leaves out.
SqlInsertUnread(params) ==
    IF "unread" \notin db.tables THEN Reply(db, NoTable, <<>>, FALSE)
    ELSE IF params = <<>> THEN Reply(db, "ok", <<>>, FALSE)
    ELSE IF backend = "sqlite" /\ \E i \in 1..Len(params) : ~Bindable(params[i][2])
    THEN Reply(db, "ProgrammingError", <<>>, FALSE)
    ELSE IF backend = "sqlite"
    THEN Reply(db, "IntegrityError", <<>>, FALSE)
    ELSE LET rows == {[client_id |-> params[i][1], label |-> "",
                       event_id |-> params[i][2].val] : i \in 1..Len(params)}
         IN  IF \/ \E r \in rows : \E u \in db.unread :
                       u.client_id = r.client_id /\ u.event_id = r.event_id
                \/ \E r \in rows : ~\E e \in db.events : e.id = r.event_id
                \/ Cardinality(rows) < Len(params)
             THEN Reply(db, "IntegrityError", <<>>, FALSE)
             ELSE Reply([db EXCEPT !.unread = @ \cup rows], "ok", <<>>, FALSE)

\* A subscription insert that would also hand the new subscriber the
\* events already logged under the label (a retroactive delivery).
SqlInsertSubscriptionRetroactive(client_id, label) ==
    LET row == [client_id |-> client_id, label |-> label]
        old == {[client_id |-> client_id, label |-> label, event_id |-> e.id] :
                    e \in {x \in db.events : x.label = label}}
    IN  IF "subscriptions" \notin db.tables THEN Reply(db, NoTable, <<>>, FALSE)
        ELSE IF BagIn(row, db.subscriptions) THEN Reply(db, "ok", <<>>, FALSE)
        ELSE Reply([db EXCEPT !.subscriptions = @ (+) SetToBag({row}),
                              !.unread = @ \cup old],
                   "ok", <<>>, FALSE)

\* INSERT OR IGNORE INTO subscriptions (client_id, label) VALUES (?, ?)
\* INSERT INTO subscriptions ... ON CONFLICT (client_id, label) DO NOTHING
SqlInsertSubscription(client_id, label) ==
    LET row == [client_id |-> client_id, label |-> label]
    IN  IF "subscriptions" \notin db.tables THEN Reply(db, NoTable, <<>>, FALSE)
        ELSE IF BagIn(row, db.subscriptions) THEN Reply(db, "ok", <<>>, FALSE)
        ELSE Reply([db EXCEPT !.subscriptions = @ (+) SetToBag({row})],
                   "ok", <<>>, FALSE)

\* A DELETE whose WHERE clause leaves out the client: it matches the rows
\* of every client.
MatchesAnyClient(row, client_id, label) ==
    label = Star \/ row.label = label

\* The subscription rows a DELETE with this label argument matches.
Matches(row, client_id, label) ==
    row.client_id = client_id /\ (label = Star \/ row.label = label)

\* DELETE FROM subscriptions WHERE client_id = ?                 ("*")
\* DELETE FROM subscriptions WHERE client_id = ? AND label = ?
\* The SQLite backend passes (client_id, label) to both statements; the
\* first has one placeholder.  Deleting a subscription cascades to the
\* unread rows that reference it: by (client_id, label) in SQLite, by
\* client_id in PostgreSQL.
SqlDeleteSubscriptions(client_id, label) ==
    LET Gone(r) == Matches(r, client_id, label)
        Cascade(u) ==
            IF backend = "sqlite"
            THEN \E r \in BagToSet(db.subscriptions) :
                    Gone(r) /\ u.client_id = r.client_id /\ u.label = r.label
            ELSE \E r \in BagToSet(db.subscriptions) :
                    Gone(r) /\ u.client_id = r.client_id
    IN  IF "subscriptions" \notin db.tables THEN Reply(db, NoTable, <<>>, FALSE)
        ELSE IF backend = "sqlite" /\ label = Star
        THEN Reply(db, "ProgrammingError", <<>>, FALSE)
        ELSE Reply([db EXCEPT !.subscriptions =
                                  [r \in {x \in BagToSet(@) : ~Gone(x)} |-> @[r]],
                              !.unread = {u \in @ : ~Cascade(u)}],
                   "ok", <<>>, FALSE)

\* A clearing of the markers that takes the marked events with it.
SqlDeleteUnreadEvents(client_id) ==
    IF "unread" \notin db.tables THEN Reply(db, NoTable, <<>>, FALSE)
    ELSE LET read == {u.event_id : u \in {x \in db.unread : x.client_id = client_id}}
         IN  Reply([db EXCEPT !.unread = {u \in @ : u.event_id \notin read},
                              !.events = {e \in @ : e.id \notin read}],
                   "ok", <<>>, FALSE)

\* DELETE FROM unread WHERE client_id = ?
SqlDeleteUnread(client_id) ==
    IF "unread" \notin db.tables THEN Reply(db, NoTable, <<>>, FALSE)
    ELSE Reply([db EXCEPT !.unread = {u \in @ : u.client_id # client_id}],
               "ok", <<>>, FALSE)

\* SELECT events.label, events.data FROM events JOIN unread
\*   ON events.id = unread.event_id WHERE unread.client_id = ?
\* (the possible replies: the statement has no ORDER BY)
SqlSelectUnreadEvents(client_id) ==
    IF ~({"events", "unread"} \subseteq db.tables)
    THEN {Reply(db, NoTable, <<>>, FALSE)}
    ELSE LET joined == {e \in db.events : \E u \in db.unread :
                            u.client_id = client_id /\ u.event_id = e.id}
         IN  {Reply(db, "ok",
                    [i \in 1..Len(o) |-> [id |-> o[i].id, label |-> o[i].label,
                                          data |-> o[i].data]], TRUE) :
                 o \in Orders(joined)}

\* A sweep that deletes every event row, referenced or not, and leaves
\* the unread rows as they are.
SqlSweepAll ==
    IF ~({"events", "unread"} \subseteq db.tables)
    THEN Reply(db, NoTable, <<>>, FALSE)
    ELSE Reply([db EXCEPT !.events = {}], "ok", <<>>, FALSE)

\* DELETE FROM events WHERE id NOT IN (SELECT DISTINCT event_id FROM unread)
\* One statement: the marker set is read and the rows deleted in one step.
SqlSweep ==
    IF ~({"events", "unread"} \subseteq db.tables)
    THEN Reply(db, NoTable, <<>>, FALSE)
    ELSE LET referenced == {u.event_id : u \in db.unread}
         IN  Reply([db EXCEPT !.events = {e \in @ : e.id \in referenced}],
                   "ok", <<>>, FALSE)

\* _execute: run the statement, then cursor_to_dict, which calls
\* cursor.fetchall().  psycopg2 raises ProgrammingError when the statement
\* gave no result set; the statement itself stays committed.
Execute(reply) ==
    IF reply.error = "ok" /\ backend = "postgres" /\ ~reply.hasResult
    THEN [reply EXCEPT !.error = "ProgrammingError"]
    ELSE reply

\* _executemany: PostgreSQL goes through cursor_to_dict like _execute;
\* SQLite runs the statement and returns nothing.
ExecuteMany(reply) == Execute(reply)

-----------------------------------------------------------------------------
(* Calls                                                                   *)

NoCall == [op |-> "none", label |-> "", data |-> NoneData]
NoId   == [type |-> "NoneType", val |-> 0]

\* A call as a test writes it down.
Call(op, c, label, data) ==
    [op |-> op, client |-> c, label |-> label, data |-> data]

\* The record `recent` keeps of a completed call: what was called, by whom,
\* how it ended ("ok" or the exception raised) and what it returned.
Completed(c, op, label, data, status, value) ==
    [op |-> op, client |-> c, label |-> label, data |-> data,
     status |-> status, value |-> value]

\* Any client may call anything at any time.
Free == [mode |-> "free", calls |-> <<>>]

\* The payloads free clients emit.  No statement looks into the payload, so
\* one non-empty payload stands for all; the tests emit every payload.
FreePayloads == {X1Dict}

\* Free clients call on_event(label) without applying the decorator it
\* returns: the handler maps only matter to the client that owns them, and
\* the tests register every handler.
FreeHandlers == {NoHandler}

\* Client c begins the call: always when the clients are free, and when a
\* test drives them, when the call is the test's next one and the one
\* before it has returned.
Begin(c, op, label, data) ==
    /\ pc[c] = "idle"
    /\ IF driver.mode = "free"
       THEN /\ op \in {"emit", "handle_event"} => data \in FreePayloads
            /\ op = "on_event" => data \in FreeHandlers
            /\ driver' = driver
       ELSE /\ \A d \in Clients : pc[d] = "idle"
            /\ driver.calls # <<>>
            /\ Head(driver.calls) = Call(op, c, label, data)
            /\ driver' = [driver EXCEPT !.calls = Tail(@)]

\* Client c is at statement `at` of its call.
At(c, at) ==
    /\ pc[c] = at
    /\ UNCHANGED driver

\* The call of client c returns or raises: its locals are gone.
Return(c, op, label, data, status, value) ==
    /\ recent' = IF driver.mode = "free"
                 THEN <<Completed(c, op, label, data, status, value)>>
                 ELSE Append(recent, Completed(c, op, label, data, status, value))
    /\ pc' = [pc EXCEPT ![c] = "idle"]
    /\ call' = [call EXCEPT ![c] = NoCall]
    /\ event_id' = [event_id EXCEPT ![c] = NoId]
    /\ subscriptions' = [subscriptions EXCEPT ![c] = <<>>]
    /\ result' = [result EXCEPT ![c] = <<>>]

\* The call of client c goes on to its next statement.
Goto(c, next) ==
    /\ pc' = [pc EXCEPT ![c] = next]
    /\ recent' = IF driver.mode = "free" THEN <<>> ELSE recent

-----------------------------------------------------------------------------
(* subscribe                                                               *)

\* subscribe(label): one statement.
Subscribe(c, label) ==
    /\ Begin(c, "subscribe", label, NoneData)
    /\ LET r == Execute(SqlInsertSubscription(c, label))
       IN  /\ db' = r.db
           /\ Return(c, "subscribe", label, NoneData, r.error, <<>>)
    /\ UNCHANGED <<factory, backend, running, handlers>>

-----------------------------------------------------------------------------
(* _sweep                                                                  *)

\* _sweep(): one statement.  Called on its own, or as the last statement
\* of stop(), which then runs super().stop().
Sweep(c) ==
    /\ \/ Begin(c, "sweep", "", NoneData)
       \/ At(c, "stop_sweep")
    /\ LET op == IF pc[c] = "idle" THEN "sweep" ELSE "stop"
           r == Execute(SqlSweep)
       IN  /\ db' = r.db
           /\ Return(c, op, "", NoneData, r.error, <<>>)
           /\ running' = IF op = "stop" /\ r.error = "ok"
                         THEN [running EXCEPT ![c] = FALSE]
                         ELSE running
    /\ UNCHANGED <<factory, backend, handlers>>

-----------------------------------------------------------------------------
(* unsubscribe                                                             *)

\* unsubscribe(label), first statement: the DELETE.  Called on its own, or
\* by stop() as unsubscribe("*") after its listen.
UnsubscribeDelete(c, label) ==
    /\ \/ Begin(c, "unsubscribe", label, NoneData)
       \/ At(c, "stop_unsubscribe") /\ label = Star
    /\ LET op == IF pc[c] = "idle" THEN "unsubscribe" ELSE "stop"
           arg == IF pc[c] = "idle" THEN label ELSE ""
           r == Execute(SqlDeleteSubscriptions(c, label))
       IN  /\ db' = r.db
           /\ IF r.error # "ok"
              THEN Return(c, op, arg, NoneData, r.error, <<>>)
              ELSE /\ Goto(c, "unsubscribe_sweep")
                   /\ call' = [call EXCEPT ![c] =
                          [op |-> op, label |-> arg, data |-> NoneData]]
                   /\ UNCHANGED <<event_id, subscriptions, result>>
    /\ UNCHANGED <<factory, backend, running, handlers>>

\* unsubscribe(label), second statement: self._sweep().  Inside stop() the
\* call goes on to stop's own self._sweep().
UnsubscribeSweep(c) ==
    /\ At(c, "unsubscribe_sweep")
    /\ LET r == Execute(SqlSweep)
       IN  /\ db' = r.db
           /\ IF call[c].op = "stop" /\ r.error = "ok"
              THEN /\ Goto(c, "stop_sweep")
                   /\ UNCHANGED <<call, event_id, subscriptions, result>>
              ELSE Return(c, call[c].op, call[c].label, NoneData, r.error, <<>>)
    /\ UNCHANGED <<factory, backend, running, handlers>>

-----------------------------------------------------------------------------
(* emit                                                                    *)

\* What emit keeps of the RETURNING id row: the SQLite backend keeps the
\* row itself (["fetchall"][0], a dict), the PostgreSQL backend its id
\* (["fetchall"][0]["id"], an int).
EventIdOf(row) ==
    IF backend = "sqlite" THEN [type |-> "dict", val |-> row.id]
    ELSE [type |-> "int", val |-> row.id]

\* emit(label, data), first statement: insert the event row.
EmitInsertEvent(c, label, data) ==
    /\ Begin(c, "emit", label, data)
    /\ NextEventId <= MaxEvents
    /\ LET r == Execute(SqlInsertEvent(label, Str(DataOrEmpty(data))))
       IN  /\ db' = r.db
           /\ IF r.error # "ok"
              THEN Return(c, "emit", label, data, r.error, <<>>)
              ELSE /\ Goto(c, "emit_select")
                   /\ call' = [call EXCEPT ![c] =
                          [op |-> "emit", label |-> label, data |-> data]]
                   /\ event_id' = [event_id EXCEPT ![c] = EventIdOf(r.rows[1])]
                   /\ UNCHANGED <<subscriptions, result>>
    /\ UNCHANGED <<factory, backend, running, handlers>>

\* Whether emit runs its third statement for this list of subscribers: the
\* PostgreSQL backend skips it for an empty list, the SQLite backend never.
NotifyNeeded(subs) == backend = "sqlite" \/ subs # <<>>

\* emit, second statement: read the subscribers of the label.
EmitSelectSubscribers(c) ==
    /\ At(c, "emit_select")
    /\ \E r0 \in SqlSelectSubscribers(call[c].label) :
         LET r == Execute(r0)
             subs == [i \in 1..Len(r.rows) |-> r.rows[i].client_id]
         IN  /\ db' = r.db
             /\ IF r.error # "ok"
                THEN Return(c, "emit", call[c].label, call[c].data, r.error, <<>>)
                ELSE IF ~NotifyNeeded(subs)
                THEN Return(c, "emit", call[c].label, call[c].data, "ok", <<>>)
                ELSE /\ Goto(c, "emit_insert")
                     /\ subscriptions' = [subscriptions EXCEPT ![c] = subs]
                     /\ UNCHANGED <<call, event_id, result>>
    /\ UNCHANGED <<factory, backend, running, handlers>>

\* emit, third statement: one unread row per subscriber read.
EmitInsertUnread(c) ==
    /\ At(c, "emit_insert")
    /\ LET params == [i \in 1..Len(subscriptions[c]) |->
                         <<subscriptions[c][i], event_id[c]>>]
           r == ExecuteMany(SqlInsertUnread(params))
       IN  /\ db' = r.db
           /\ Return(c, "emit", call[c].label, call[c].data, r.error, <<>>)
    /\ UNCHANGED <<factory, backend, running, handlers>>

-----------------------------------------------------------------------------
(* listen                                                                  *)

\* The keys of the dict cursor_to_dict returns, and the key listen reads
\* the rows from.
ResultKeys == {"fetchall", "lastrowid", "rowcount"}
ListenKey  == IF backend = "sqlite" THEN "result" ELSE "fetchall"

\* listen(), first statement: fetch the client's unread events.
ListenSelect(c, op) ==
    /\ Begin(c, op, "", NoneData)
    /\ \E r0 \in SqlSelectUnreadEvents(c) :
         LET r == Execute(r0)
         IN  /\ db' = r.db
             /\ IF r.error # "ok"
                THEN Return(c, op, "", NoneData, r.error, <<>>)
                ELSE /\ Goto(c, "listen_clear")
                     /\ call' = [call EXCEPT ![c] =
                            [op |-> op, label |-> "", data |-> NoneData]]
                     /\ result' = [result EXCEPT ![c] = r.rows]
                     /\ UNCHANGED <<event_id, subscriptions>>
    /\ UNCHANGED <<factory, backend, running, handlers>>

Listen(c) == ListenSelect(c, "listen")

\* The events listen builds from the fetched rows, each with the id of the
\* row it was built from (the id is no field of the Event: it is kept to
\* tell two deliveries of one event from two events that look alike).
EventsOf(rows) ==
    [i \in 1..Len(rows) |->
        [id |-> rows[i].id, event |-> Event(rows[i].label, rows[i].data)]]

\* handle_event(event) for each event of the sequence, in its order: the
\* handler registered for the event's label is called with the event, and
\* an event whose label has no handler is passed over.
Invocations(c, events) ==
    LET known == SelectSeq(events, LAMBDA e : handlers[c][e.label] # NoHandler)
    IN  [i \in 1..Len(known) |->
            [handler |-> handlers[c][known[i].label], event |-> known[i]]]

\* The handler calls client c makes for the events are on record.
Dispatch(c, events) ==
    LET done == Completed(c, "dispatch", "", NoneData, "ok", Invocations(c, events))
    IN  recent' = IF driver.mode = "free" THEN <<done>> ELSE Append(recent, done)

\* listen(), second statement: _clear_unread(), then the events are built
\* from the fetched rows and returned.  Inside stop() the events are
\* dropped and stop() goes on to unsubscribe("*"); inside run() each is
\* handed to handle_event and the loop goes round.
ListenClear(c) ==
    /\ At(c, "listen_clear")
    /\ LET r == Execute(SqlDeleteUnread(c))
           events == EventsOf(result[c])
       IN  /\ db' = r.db
           /\ IF r.error # "ok"
              THEN Return(c, call[c].op, "", NoneData, r.error, <<>>)
              ELSE IF ListenKey \notin ResultKeys
              THEN Return(c, call[c].op, "", NoneData, "KeyError", <<>>)
              ELSE IF call[c].op = "listen"
              THEN Return(c, "listen", "", NoneData, "ok", events)
              ELSE IF call[c].op = "run"
              THEN /\ Dispatch(c, [i \in 1..Len(events) |-> events[i].event])
                   /\ pc' = [pc EXCEPT ![c] = "run_listen"]
                   /\ result' = [result EXCEPT ![c] = <<>>]
                   /\ UNCHANGED <<call, event_id, subscriptions>>
              ELSE /\ Goto(c, "stop_unsubscribe")
                   /\ result' = [result EXCEPT ![c] = <<>>]
                   /\ UNCHANGED <<call, event_id, subscriptions>>
    /\ UNCHANGED <<factory, backend, running, handlers>>

-----------------------------------------------------------------------------
(* start, stop                                                             *)

\* start(): _init_db() creates the three tables, one statement each, then
\* super().start() sets _running.
StartCreateEvents(c) ==
    /\ Begin(c, "start", "", NoneData)
    /\ LET r == Execute(SqlCreateTable("events"))
       IN  /\ db' = r.db
           /\ IF r.error # "ok"
              THEN Return(c, "start", "", NoneData, r.error, <<>>)
              ELSE /\ Goto(c, "start_subscriptions")
                   /\ call' = [call EXCEPT ![c] =
                          [op |-> "start", label |-> "", data |-> NoneData]]
                   /\ UNCHANGED <<event_id, subscriptions, result>>
    /\ UNCHANGED <<factory, backend, running, handlers>>

StartCreateSubscriptions(c) ==
    /\ At(c, "start_subscriptions")
    /\ LET r == Execute(SqlCreateTable("subscriptions"))
       IN  /\ db' = r.db
           /\ IF r.error # "ok"
              THEN Return(c, "start", "", NoneData, r.error, <<>>)
              ELSE /\ Goto(c, "start_unread")
                   /\ UNCHANGED <<call, event_id, subscriptions, result>>
    /\ UNCHANGED <<factory, backend, running, handlers>>

StartCreateUnread(c) ==
    /\ At(c, "start_unread")
    /\ LET r == Execute(SqlCreateTable("unread"))
       IN  /\ db' = r.db
           /\ Return(c, "start", "", NoneData, r.error, <<>>)
           /\ running' = [running EXCEPT ![c] = IF r.error = "ok" THEN TRUE ELSE @]
    /\ UNCHANGED <<factory, backend, handlers>>

\* stop().  The SQLite backend begins with self.pause(), a method no class
\* defines: AttributeError, nothing else runs.  The PostgreSQL backend
\* begins with self.listen(); the call then goes on in ListenClear,
\* UnsubscribeDelete, UnsubscribeSweep and Sweep, which sets _running.
Stop(c) ==
    IF backend = "sqlite"
    THEN /\ Begin(c, "stop", "", NoneData)
         /\ Return(c, "stop", "", NoneData, "AttributeError", <<>>)
         /\ UNCHANGED <<factory, backend, db, running, handlers>>
    ELSE ListenSelect(c, "stop")

-----------------------------------------------------------------------------
(* on_event, handle_event, run                                             *)

\* on_event(label), and the decorator it returns applied to handler unless
\* handler is NoHandler.  on_event subscribes before it returns the
\* decorator, so that a subscribe that raises leaves no handler registered.
OnEvent(c, label, handler) ==
    /\ Begin(c, "on_event", label, handler)
    /\ LET r == Execute(SqlInsertSubscription(c, label))
       IN  /\ db' = r.db
           /\ Return(c, "on_event", label, handler, r.error, <<>>)
           /\ handlers' = IF r.error = "ok" /\ handler # NoHandler
                          THEN [handlers EXCEPT ![c][label] = handler]
                          ELSE handlers
    /\ UNCHANGED <<factory, backend, running>>

\* handle_event(Event(label, data)), called by the client's own code.
HandleEvent(c, label, data) ==
    /\ Begin(c, "handle_event", label, data)
    /\ Return(c, "handle_event", label, data, "ok",
              Invocations(c, <<Event(label, data)>>))
    /\ UNCHANGED <<factory, backend, db, running, handlers>>

\* run(): sets _running and enters the loop.
Run(c) ==
    /\ Begin(c, "run", "", NoneData)
    /\ running' = [running EXCEPT ![c] = TRUE]
    /\ Goto(c, "run_listen")
    /\ call' = [call EXCEPT ![c] = [op |-> "run", label |-> "", data |-> NoneData]]
    /\ UNCHANGED <<factory, backend, db, handlers, event_id, subscriptions, result>>

\* run(), the head of the loop: it ends when the client is no longer
\* running, else listen() fetches the client's unread events.
RunListen(c) ==
    /\ At(c, "run_listen")
    /\ IF ~running[c]
       THEN /\ Return(c, "run", "", NoneData, "ok", <<>>)
            /\ UNCHANGED db
       ELSE \E r0 \in SqlSelectUnreadEvents(c) :
              LET r == Execute(r0)
              IN  /\ db' = r.db
                  /\ IF r.error # "ok"
                     THEN Return(c, "run", "", NoneData, r.error, <<>>)
                     ELSE /\ Goto(c, "listen_clear")
                          /\ result' = [result EXCEPT ![c] = r.rows]
                          /\ UNCHANGED <<call, event_id, subscriptions>>
    /\ UNCHANGED <<factory, backend, running, handlers>>

-----------------------------------------------------------------------------
(* create                                                                  *)

\* os.getenv(name): a variable is unset (None) or set to a string.
Unset    == [set |-> FALSE, val |-> ""]
Set(str) == [set |-> TRUE, val |-> str]

EnvNames == {"CLIENT_ID", "CLIENT_SECRET", "ENV", "YAPPERDB_URI"}

Getenv(name, default) == IF environ[name].set THEN environ[name] ELSE default

\* Python's truth value of os.getenv's result: None and "" are false.
Truthy(v) == v.set /\ v.val # ""

\* The values ENV takes here, and str.lower() on them.
EnvTags == {"development", "testing", "staging", "production", "Production",
            "invalid", ""}
Lower(str) == IF str = "Production" THEN "production" ELSE str

Uri    == "postgresql://test@localhost:5432/test_db"
DbFile == "./test.db"

\* The keyword arguments of a call: none, db, db_uri or both.
NoKwargs  == [k \in {} |-> ""]
KwargSets ==
    {[k \in keys |-> IF k = "db" THEN DbFile ELSE Uri] : keys \in SUBSET {"db", "db_uri"}}

\* What a call gives: the exception it raises, or the object constructed.
Raise(error) == [raises |-> error, class |-> "", client_id |-> "", db_uri |-> ""]
Object(class, client_id, db_uri) ==
    [raises |-> "", class |-> class, client_id |-> client_id, db_uri |-> db_uri]
NotCalled == Raise("")

\* SQLiteYapper(client_id, **kw): db is its only keyword.
SQLiteYapper(client_id, kw) ==
    IF ~(DOMAIN kw \subseteq {"db"}) THEN Raise("TypeError")
    ELSE Object("SQLiteYapper", client_id,
                IF "db" \in DOMAIN kw THEN kw["db"] ELSE ":memory:")

\* PostgreSQLYapper(client_id, db_uri=db_uri, **kw): db_uri is its only
\* keyword, and kw may not give it a second time.
PostgreSQLYapper(client_id, db_uri, kw) ==
    IF kw # NoKwargs THEN Raise("TypeError")
    ELSE Object("PostgreSQLYapper", client_id, db_uri)

\* The environment tag create() decides by.
EnvTag == Lower(Getenv("ENV", Set("development")).val)

\* create(**kw) that does not ask for CLIENT_SECRET.
createWithoutSecret(kw) ==
    LET client_id == Getenv("CLIENT_ID", Unset)
        uri == Getenv("YAPPERDB_URI", Unset)
    IN  IF ~Truthy(client_id) THEN Raise("ValueError")
        ELSE IF EnvTag \in {"development", "testing"}
        THEN SQLiteYapper(client_id.val, kw)
        ELSE IF EnvTag \in {"staging", "production"}
        THEN IF ~Truthy(uri) THEN Raise("ValueError")
             ELSE PostgreSQLYapper(client_id.val, uri.val, kw)
        ELSE Raise("ValueError")

\* create(**kw)
create(kw) ==
    LET client_id == Getenv("CLIENT_ID", Unset)
        client_secret == Getenv("CLIENT_SECRET", Unset)
        uri == Getenv("YAPPERDB_URI", Unset)
    IN  IF ~Truthy(client_id) THEN Raise("ValueError")
        ELSE IF ~Truthy(client_secret) THEN Raise("ValueError")
        ELSE IF EnvTag \in {"development", "testing"}
        THEN SQLiteYapper(client_id.val, kw)
        ELSE IF EnvTag \in {"staging", "production"}
        THEN IF ~Truthy(uri) THEN Raise("ValueError")
             ELSE PostgreSQLYapper(client_id.val, uri.val, kw)
        ELSE Raise("ValueError")

\* The program calls create(**kwargs) in its environment.
Create ==
    /\ created = NotCalled
    /\ created' = create(kwargs)
    /\ UNCHANGED <<environ, kwargs, backend, db, running, handlers, pc, call,
                   event_id, subscriptions, result, driver, recent>>

-----------------------------------------------------------------------------
(* Tests: the calls of the scenarios of tests/test_sqlite.py and of the    *)
(* broker's contract, for every client, label and payload.                 *)

Started(c)          == Call("start", c, "", NoneData)
Subscribed(c, l)    == Call("subscribe", c, l, NoneData)
Unsubscribed(c, l)  == Call("unsubscribe", c, l, NoneData)
Emitted(c, l, d)    == Call("emit", c, l, d)
Listened(c)         == Call("listen", c, "", NoneData)
Swept(c)            == Call("sweep", c, "", NoneData)
Stopped(c)          == Call("stop", c, "", NoneData)
Registered(c, l, h) == Call("on_event", c, l, h)
Handled(c, l, d)    == Call("handle_event", c, l, d)
Ran(c)              == Call("run", c, "", NoneData)

\* test_listen_retrieves_events
TestListen(c, l, d) ==
    <<Started(c), Subscribed(c, l), Emitted(c, l, d), Listened(c), Listened(c)>>

TestOrder(c, l, d1, d2) ==
    <<Started(c), Subscribed(c, l), Emitted(c, l, d1), Emitted(c, l, d2), Listened(c)>>

TestSubscribeTwice(c, l, d) ==
    <<Started(c), Subscribed(c, l), Subscribed(c, l), Emitted(c, l, d), Listened(c)>>

TestUnwatched(c, l, d) ==
    <<Started(c), Emitted(c, l, d), Swept(c)>>

TestUnsubscribe(c, l, d) ==
    <<Started(c), Emitted(c, "a", d), Subscribed(c, "a"), Subscribed(c, "b"),
      Unsubscribed(c, l)>>

TestFanOut(c, d, l, p) ==
    <<Started(c), Started(d), Subscribed(c, l), Subscribed(d, l), Emitted(c, l, p),
      Swept(c), Listened(c), Swept(c), Listened(d), Swept(c)>>

TestLateSubscribe(c, l, d) ==
    <<Started(c), Emitted(c, l, d), Subscribed(c, l), Listened(c)>>

\* test_stop_cleans_up
TestStop(c, l, d) ==
    <<Started(c), Subscribed(c, l), Emitted(c, l, d), Stopped(c), Listened(c)>>

\* test_on_event_registers_handler
TestOnEvent(c, l, h, d) ==
    <<Started(c), Registered(c, l, h), Emitted(c, l, d), Handled(c, l, d)>>

\* Two registrations for one label, one for another, then an event of each.
TestRegisterTwice(c, l, k) ==
    <<Started(c), Registered(c, l, H1), Registered(c, k, H1), Registered(c, l, H2),
      Handled(c, l, NoneData), Handled(c, k, NoneData)>>

\* An event is handled before any handler is registered for its label.
TestNoHandler(c, l, k, h) ==
    <<Started(c), Registered(c, k, h), Handled(c, l, NoneData)>>

\* The dispatch loop with one event pending.
TestRun(c, l, h, d) ==
    <<Started(c), Registered(c, l, h), Emitted(c, l, d), Ran(c)>>

\* test_running_state
TestRunning(c) ==
    <<Started(c), Stopped(c)>>

Tests ==
    {TestListen(c, l, d) : c \in Clients, l \in Labels, d \in Payloads}
    \cup {TestOrder(c, l, d[1], d[2]) : c \in Clients, l \in Labels, d \in Payloads \X Payloads}
    \cup {TestSubscribeTwice(c, l, d) : c \in Clients, l \in Labels, d \in Payloads}
    \cup {TestUnwatched(c, l, d) : c \in Clients, l \in Labels, d \in Payloads}
    \cup {TestUnsubscribe(c, l, d) : c \in Clients, l \in Labels \cup {Star}, d \in Payloads}
    \cup {TestFanOut(cd[1], cd[2], l, p) :
             cd \in {x \in Clients \X Clients : x[1] # x[2]}, l \in Labels, p \in Payloads}
    \cup {TestLateSubscribe(c, l, d) : c \in Clients, l \in Labels, d \in Payloads}
    \cup {TestStop(c, l, d) : c \in Clients, l \in Labels, d \in Payloads}
    \cup {TestRunning(c) : c \in Clients}
    \cup {TestOnEvent(c, l, h, d) :
             c \in Clients, l \in Labels, h \in Handlers \cup {NoHandler}, d \in Payloads}
    \cup {TestRegisterTwice(c, l, k) : c \in Clients, l \in Labels, k \in Labels}
    \cup {TestNoHandler(c, l, k, h) :
             c \in Clients, l \in Labels, k \in Labels, h \in Handlers \cup {NoHandler}}
    \cup {TestRun(c, l, h, d) : c \in Clients, l \in Labels, h \in Handlers, d \in Payloads}

-----------------------------------------------------------------------------

\* The state after the clients are constructed on an empty store.
Constructed ==
    /\ backend \in Backends
    /\ db = EmptyDb
    /\ running = [c \in Clients |-> FALSE]
    /\ handlers = [c \in Clients |-> [l \in Labels |-> NoHandler]]
    /\ pc = [c \in Clients |-> "idle"]
    /\ call = [c \in Clients |-> NoCall]
    /\ event_id = [c \in Clients |-> NoId]
    /\ subscriptions = [c \in Clients |-> <<>>]
    /\ result = [c \in Clients |-> <<>>]
    /\ recent = <<>>

\* The environment of tests/test_sqlite.py, which constructs its clients
\* itself: create() is not called.
Configured ==
    /\ environ = [n \in EnvNames |-> Unset]
    /\ kwargs = NoKwargs
    /\ created = NotCalled

Init == Configured /\ Constructed /\ driver = Free

TestInit ==
    /\ Configured
    /\ Constructed
    /\ driver \in {[mode |-> "test", calls |-> t] : t \in Tests}

\* Every environment and every keyword arguments create() may meet, with
\* the store untouched.
CreateInit ==
    /\ environ \in {[n \in EnvNames |-> e[n]] :
                       e \in [CLIENT_ID : {Unset, Set(""), Set("c1"), Set("c2")},
                              CLIENT_SECRET : {Unset, Set(""), Set("secret")},
                              ENV : {Unset} \cup {Set(t) : t \in EnvTags},
                              YAPPERDB_URI : {Unset, Set(""), Set(Uri)}]}
    /\ kwargs \in KwargSets
    /\ created = NotCalled
    /\ Constructed
    /\ backend = "sqlite"
    /\ driver = Free

Next ==
    \/ \E c \in Clients, l \in Labels : Subscribe(c, l)
    \/ \E c \in Clients, l \in Labels \cup {Star} : UnsubscribeDelete(c, l)
    \/ \E c \in Clients : UnsubscribeSweep(c)
    \/ \E c \in Clients, l \in Labels, d \in Payloads : EmitInsertEvent(c, l, d)
    \/ \E c \in Clients : EmitSelectSubscribers(c)
    \/ \E c \in Clients : EmitInsertUnread(c)
    \/ \E c \in Clients : Listen(c)
    \/ \E c \in Clients : ListenClear(c)
    \/ \E c \in Clients : Sweep(c)
    \/ \E c \in Clients : StartCreateEvents(c)
    \/ \E c \in Clients : StartCreateSubscriptions(c)
    \/ \E c \in Clients : StartCreateUnread(c)
    \/ \E c \in Clients : Stop(c)
    \/ \E c \in Clients, l \in Labels, h \in Handlers \cup {NoHandler} : OnEvent(c, l, h)
    \/ \E c \in Clients, l \in Labels, d \in Payloads : HandleEvent(c, l, d)
    \/ \E c \in Clients : Run(c)
    \/ \E c \in Clients : RunListen(c)

\* A test that runs its calls on the SQLite backend and then once more,
\* with the clients constructed anew on an empty store, on PostgreSQL.
BothInit ==
    /\ Configured
    /\ Constructed
    /\ backend = "sqlite"
    /\ driver \in {[mode |-> "both", calls |-> t, script |-> t, first |-> <<>>,
                    again |-> FALSE] : t \in Tests}

\* The first run of the test is over: the clients are constructed on the
\* PostgreSQL backend and the test starts again; what the calls of the
\* first run returned is kept.
Reconstruct ==
    /\ driver.mode = "both"
    /\ ~driver.again
    /\ driver.calls = <<>>
    /\ \A c \in Clients : pc[c] = "idle"
    /\ backend' = "postgres"
    /\ db' = EmptyDb
    /\ running' = [c \in Clients |-> FALSE]
    /\ handlers' = [c \in Clients |-> [l \in Labels |-> NoHandler]]
    /\ driver' = [driver EXCEPT !.calls = driver.script, !.first = recent,
                                !.again = TRUE]
    /\ recent' = <<>>
    /\ UNCHANGED <<factory, pc, call, event_id, subscriptions, result>>

BothNext == Next \/ Reconstruct

\* Every interleaving of the statements of the clients' calls.
Spec == Init /\ [][Next]_vars

\* The calls of one test, one after the other.
TestSpec == TestInit /\ [][Next]_vars

\* The tests on the SQLite backend, which tests/test_sqlite.py runs.
SqliteTestInit == TestInit /\ backend = "sqlite"

SqliteTestSpec == SqliteTestInit /\ [][Next]_vars

\* The SQLite databases a client may open: the file named by db outlives
\* the clients, and holds whatever rows the three tables admit.  An unread
\* row references an events row by event_id and a subscriptions row by
\* (client_id, label).
StoredEvents == {[id |-> 1, label |-> "a", data |-> Str(X1Dict)]}
Stores ==
    {s \in [tables : {Tables},
            events : SUBSET StoredEvents,
            subscriptions : {SetToBag(rows) :
                rows \in SUBSET {[client_id |-> c, label |-> "a"] : c \in Clients}},
            unread : SUBSET {[client_id |-> c, label |-> "a", event_id |-> 1] :
                                c \in Clients},
            seq : {0}] :
        \A u \in s.unread :
            /\ \E e \in s.events : e.id = u.event_id
            /\ BagIn([client_id |-> u.client_id, label |-> u.label], s.subscriptions)}

\* Clients constructed on a database that is already there.
StoredInit ==
    /\ Configured
    /\ backend = "sqlite"
    /\ db \in Stores
    /\ running = [c \in Clients |-> FALSE]
    /\ handlers = [c \in Clients |-> [l \in Labels |-> NoHandler]]
    /\ pc = [c \in Clients |-> "idle"]
    /\ call = [c \in Clients |-> NoCall]
    /\ event_id = [c \in Clients |-> NoId]
    /\ subscriptions = [c \in Clients |-> <<>>]
    /\ result = [c \in Clients |-> <<>>]
    /\ recent = <<>>
    /\ driver = Free

\* The clients call the operations that read and write the store, in
\* any interleaving.
StoreNext ==
    \/ \E c \in Clients, l \in Labels : Subscribe(c, l)
    \/ \E c \in Clients, l \in Labels \cup {Star} : UnsubscribeDelete(c, l)
    \/ \E c \in Clients : UnsubscribeSweep(c)
    \/ \E c \in Clients, l \in Labels, d \in Payloads : EmitInsertEvent(c, l, d)
    \/ \E c \in Clients : EmitSelectSubscribers(c)
    \/ \E c \in Clients : EmitInsertUnread(c)
    \/ \E c \in Clients : Listen(c)
    \/ \E c \in Clients : ListenClear(c)
    \/ \E c \in Clients : Sweep(c)
    \/ \E c \in Clients : StartCreateEvents(c)
    \/ \E c \in Clients : StartCreateSubscriptions(c)
    \/ \E c \in Clients : StartCreateUnread(c)
    \/ \E c \in Clients : Stop(c)

StoredSpec == StoredInit /\ [][StoreNext]_vars

-----------------------------------------------------------------------------
(* YapperInterface.run: the dispatch loop of the base class                *)

\* The loop is taken with a listen() that returns: listen is abstract in
\* YapperInterface, and any list of events is a batch it may return.  The
\* stop() is the one of YapperInterface, which clears _running.
MaxPolls == 2       \* listen() calls looked at
MaxBatch == 2       \* events in one batch

\* A handler whose body calls stop() on its own client.
StopHandler == [type |-> "function", repr |-> "stop"]

Batches ==
    UNION {[1..n -> {Event(l, X1Dict) : l \in Labels}] : n \in 0..MaxBatch}

\* The listen() calls client c has made.
Polls(c) ==
    Cardinality({i \in 1..Len(recent) :
                    recent[i].op = "listen" /\ recent[i].client = c})

\* run(): self._running = True, then the loop.  One run() of the object
\* is followed, from its call to its return.
BaseRun(c) ==
    /\ pc[c] = "idle"
    /\ \A i \in 1..Len(recent) : ~(recent[i].op = "run" /\ recent[i].client = c)
    /\ running' = [running EXCEPT ![c] = TRUE]
    /\ pc' = [pc EXCEPT ![c] = "run_while"]
    /\ call' = [call EXCEPT ![c] = [op |-> "run", label |-> "", data |-> NoneData]]
    /\ UNCHANGED <<factory, backend, db, handlers, event_id, subscriptions,
                   result, driver, recent>>

\* A loop head that does not look at _running.
BaseRunWhileTrue(c) ==
    /\ pc[c] = "run_while"
    /\ Polls(c) < MaxPolls
    /\ pc' = [pc EXCEPT ![c] = "run_listen"]
    /\ UNCHANGED <<call, event_id, subscriptions, result, recent>>
    /\ UNCHANGED <<factory, backend, db, running, handlers, driver>>

\* `while self.running:`: the test of the loop.
BaseRunWhile(c) ==
    /\ pc[c] = "run_while"
    /\ IF ~running[c]
       THEN Return(c, "run", "", NoneData, "ok", <<>>)
       ELSE /\ Polls(c) < MaxPolls
            /\ pc' = [pc EXCEPT ![c] = "run_listen"]
            /\ UNCHANGED <<call, event_id, subscriptions, result, recent>>
    /\ UNCHANGED <<factory, backend, db, running, handlers, driver>>

\* `self.listen()`: the batch the loop is going to dispatch.
BaseRunListen(c) ==
    /\ pc[c] = "run_listen"
    /\ \E batch \in Batches :
          /\ result' = [result EXCEPT ![c] = batch]
          /\ recent' = Append(recent,
                Completed(c, "listen", "", NoneData, "ok", batch))
    /\ pc' = [pc EXCEPT ![c] = "run_for"]
    /\ UNCHANGED <<factory, backend, db, running, handlers, call, event_id,
                   subscriptions, driver>>

\* `for event in ...: self.handle_event(event)`: the next event of the
\* batch goes to the handler of its label, if there is one; the loop over
\* the batch does not look at _running.  A StopHandler runs stop().
BaseRunFor(c) ==
    /\ pc[c] = "run_for"
    /\ IF result[c] = <<>>
       THEN /\ pc' = [pc EXCEPT ![c] = "run_while"]
            /\ UNCHANGED <<result, recent, running>>
       ELSE LET event == Head(result[c])
                handler == handlers[c][event.label]
            IN  /\ result' = [result EXCEPT ![c] = Tail(@)]
                /\ recent' = IF handler = NoHandler THEN recent
                             ELSE Append(recent,
                                    Completed(c, "handler", event.label, event.data,
                                              "ok", <<handler>>))
                /\ running' = IF handler = StopHandler
                              THEN [running EXCEPT ![c] = FALSE]
                              ELSE running
                /\ pc' = pc
    /\ UNCHANGED <<factory, backend, db, handlers, call, event_id,
                   subscriptions, driver>>

\* stop() of YapperInterface, called from another thread.
BaseStop(c) ==
    /\ running' = [running EXCEPT ![c] = FALSE]
    /\ UNCHANGED <<factory, backend, db, handlers, pc, call, event_id,
                   subscriptions, result, driver, recent>>

\* One client object with any handlers registered; the objects of the
\* base class share nothing, so one stands for all.
BaseInit ==
    /\ Configured
    /\ backend = "sqlite"
    /\ db = EmptyDb
    /\ running = [c \in Clients |-> FALSE]
    /\ handlers \in {[c \in Clients |-> IF c = "c1" THEN m
                                       ELSE [l \in Labels |-> NoHandler]] :
                         m \in [Labels -> {NoHandler, H1, StopHandler}]}
    /\ pc = [c \in Clients |-> "idle"]
    /\ call = [c \in Clients |-> NoCall]
    /\ event_id = [c \in Clients |-> NoId]
    /\ subscriptions = [c \in Clients |-> <<>>]
    /\ result = [c \in Clients |-> <<>>]
    /\ recent = <<>>
    /\ driver = [mode |-> "base", calls |-> <<>>]

BaseNext ==
    \/ BaseRun("c1")
    \/ BaseRunWhile("c1")
    \/ BaseRunListen("c1")
    \/ BaseRunFor("c1")
    \/ BaseStop("c1")

BaseSpec == BaseInit /\ [][BaseNext]_vars

\* The same clients without start(): on a stored database the three
\* CREATE TABLE IF NOT EXISTS change nothing in the store.
IsolationNext ==
    \/ \E c \in Clients, l \in Labels : Subscribe(c, l)
    \/ \E c \in Clients, l \in Labels \cup {Star} : UnsubscribeDelete(c, l)
    \/ \E c \in Clients : UnsubscribeSweep(c)
    \/ \E c \in Clients, l \in Labels, d \in Payloads : EmitInsertEvent(c, l, d)
    \/ \E c \in Clients : EmitSelectSubscribers(c)
    \/ \E c \in Clients : EmitInsertUnread(c)
    \/ \E c \in Clients : Listen(c)
    \/ \E c \in Clients : ListenClear(c)
    \/ \E c \in Clients : Sweep(c)
    \/ \E c \in Clients : Stop(c)

IsolationSpec == StoredInit /\ [][IsolationNext]_vars

\* One call of create() in every environment.
CreateSpec == CreateInit /\ [][Create]_vars

\* The calls of one test on one backend, then on the other.
BothSpec == BothInit /\ [][BothNext]_vars

-----------------------------------------------------------------------------
(* Reading `recent`                                                        *)

Last == recent[Len(recent)]

\* The last calls completed are exactly the calls p, in that order.  In a
\* test the calls do not overlap, so nothing else ran in between.
EndsWith(p) ==
    /\ Len(recent) >= Len(p)
    /\ \A i \in 1..Len(p) :
          LET r == recent[Len(recent) - Len(p) + i]
          IN  Call(r.op, r.client, r.label, r.data) = p[i]

\* The events a completed listen returned.
Returned(r) == [i \in 1..Len(r.value) |-> r.value[i].event]

\* The delivery markers of client c, and the events nothing references.
MarkersOf(c) == {u \in db.unread : u.client_id = c}
Unreferenced == {e \in db.events : ~\E u \in db.unread : u.event_id = e.id}

\* The rows of the subscriptions table held for client c.
RowsOf(c) == {r \in SubscriptionRows : r[1].client_id = c}

\* The event (label, payload) as its emitter means it: the payload is the
\* structured value passed, the empty dict when none is.
EventFor(label, data) == Event(label, DataOrEmpty(data))

-----------------------------------------------------------------------------
(* Claims                                                                  *)

\* C1: after subscribe(c,l), emit(l,p), listen(c) with nothing in between,
\* the listen returns exactly one event, equal to (l,p), and a second
\* listen(c) returns the empty list.
C1_SubscribeEmitListen ==
    \A c \in Clients, e \in Clients, l \in Labels, p \in Payloads :
        /\ EndsWith(<<Subscribed(c, l), Emitted(e, l, p), Listened(c)>>)
             => /\ Last.status = "ok"
                /\ Returned(Last) = <<EventFor(l, p)>>
        /\ EndsWith(<<Subscribed(c, l), Emitted(e, l, p), Listened(c), Listened(c)>>)
             => /\ Last.status = "ok"
                /\ Returned(Last) = <<>>

\* Whether the completed call r is a listen of client c.
IsListen(r, c) == r.op = "listen" /\ r.client = c

\* C2: listen is a destructive, at-most-once read: no event is returned to
\* the same client by two listen calls, and of two listen calls of a client
\* with no emit in between, the second returns the empty list.
C2_ListenAtMostOnce ==
    \A c \in Clients : \A i \in 1..Len(recent), j \in 1..Len(recent) :
        (i < j /\ IsListen(recent[i], c) /\ IsListen(recent[j], c))
        => /\ {recent[i].value[k].id : k \in 1..Len(recent[i].value)}
                 \cap {recent[j].value[k].id : k \in 1..Len(recent[j].value)} = {}
           /\ (\A k \in i + 1..j - 1 : recent[k].op # "emit")
                 => /\ recent[j].status = "ok"
                    /\ recent[j].value = <<>>

\* C3: listen(c) returns the pending events in ascending event id, which is
\* the order of their emission: after subscribe(c,l), emit(l,p1),
\* emit(l,p2), listen(c) returns [(l,p1), (l,p2)].
C3_ListenInEmissionOrder ==
    /\ \A i \in 1..Len(recent) :
          recent[i].op = "listen"
          => \A k \in 1..Len(recent[i].value) - 1 :
                recent[i].value[k].id < recent[i].value[k + 1].id
    /\ \A c \in Clients, e \in Clients, l \in Labels, p1 \in Payloads, p2 \in Payloads :
          EndsWith(<<Subscribed(c, l), Emitted(e, l, p1), Emitted(e, l, p2), Listened(c)>>)
          => /\ Last.status = "ok"
             /\ Returned(Last) = <<EventFor(l, p1), EventFor(l, p2)>>

\* C4: subscribe is idempotent: there is never more than one subscription
\* row per (client_id, label), and after subscribe(c,l) twice an emit(l,p)
\* creates exactly one delivery marker for c, so that listen(c) returns the
\* event once.
C4_SubscribeIdempotent ==
    /\ \A r \in BagToSet(db.subscriptions) : CopiesIn(r, db.subscriptions) = 1
    /\ \A c \in Clients, e \in Clients, l \in Labels, p \in Payloads :
          /\ EndsWith(<<Subscribed(c, l), Subscribed(c, l)>>)
               => Cardinality(RowsOf(c)) = 1
          /\ EndsWith(<<Subscribed(c, l), Subscribed(c, l), Emitted(e, l, p)>>)
               => Cardinality(MarkersOf(c)) = 1
          /\ EndsWith(<<Subscribed(c, l), Subscribed(c, l), Emitted(e, l, p), Listened(c)>>)
               => /\ Last.status = "ok"
                  /\ Returned(Last) = <<EventFor(l, p)>>

\* C5: emit(l,p) to a label nobody is subscribed to completes without
\* error, inserts the event row and creates no delivery marker; a sweep
\* then leaves no row of it in the event log.
C5_EmitUnwatched ==
    \A c \in Clients, l \in Labels, p \in Payloads :
        /\ EndsWith(<<Started(c), Emitted(c, l, p)>>)
             => /\ Last.status = "ok"
                /\ \E e \in Unreferenced : e.label = l /\ e.data = Str(DataOrEmpty(p))
                /\ db.unread = {}
        /\ EndsWith(<<Started(c), Emitted(c, l, p), Swept(c)>>)
             => /\ Last.status = "ok"
                /\ db.events = {}

\* C6: unsubscribe(c,"*") removes every subscription row of c and
\* unsubscribe(c,l) only the row (c,l); both then sweep, so that no event
\* without a delivery marker is left in the event log.
C6_UnsubscribeSweeps ==
    \A c \in Clients, l \in Labels \cup {Star} :
        EndsWith(<<Subscribed(c, "a"), Subscribed(c, "b"), Unsubscribed(c, l)>>)
        => /\ Last.status = "ok"
           /\ {r[1].label : r \in RowsOf(c)} = IF l = Star THEN {} ELSE Labels \ {l}
           /\ Unreferenced = {}

\* C7: a sweep deletes exactly the events no delivery marker references:
\* the event log after it is the events before it that have a marker.
C7_SweepDeletesUnreferenced ==
    [][\A c \in Clients :
          (Sweep(c) \/ UnsubscribeSweep(c))
          => db'.events = {e \in db.events : \E u \in db.unread : u.event_id = e.id}]_vars

\* The calls of the fan-out scenario after the two start() calls.
FanOut(c, d, l, p) == SubSeq(TestFanOut(c, d, l, p), 3, Len(TestFanOut(c, d, l, p)))

\* C8: with c and d subscribed to l, emit(l,p) creates one delivery marker
\* for each, each one's next listen returns that one event, every sweep
\* keeps the event row while one of them has not listened, and the sweep
\* after both have listened leaves the event log empty.
C8_FanOut ==
    \A c \in Clients : \A d \in Clients \ {c}, l \in Labels, p \in Payloads :
        LET After(k) == EndsWith(SubSeq(FanOut(c, d, l, p), 1, k))
        IN  /\ After(3) => /\ Last.status = "ok"
                           /\ Cardinality(MarkersOf(c)) = 1
                           /\ Cardinality(MarkersOf(d)) = 1
            /\ After(4) => Cardinality(db.events) = 1
            /\ After(5) => /\ Last.status = "ok"
                           /\ Returned(Last) = <<EventFor(l, p)>>
            /\ After(6) => Cardinality(db.events) = 1
            /\ After(7) => /\ Last.status = "ok"
                           /\ Returned(Last) = <<EventFor(l, p)>>
            /\ After(8) => db.events = {}

\* The clients a sequence of client ids names.
ClientsIn(subs) == {subs[i] : i \in 1..Len(subs)}

\* The clients that hold a subscription to the label.
SubscribersOf(label) ==
    {r.client_id : r \in {x \in BagToSet(db.subscriptions) : x.label = label}}

\* C9: no retroactive or unsolicited delivery.  A delivery marker (c,e) is
\* only ever written by the emit of e, for a client that emit read as a
\* subscriber of e's label; the subscribers an emit reads are subscribed to
\* its label at that moment; and a listen of c fetches and returns only
\* events c has a marker for.  So no other call, a later subscribe(c,l)
\* in particular, makes an event appear in a listen of c.
C9_NoRetroactiveDelivery ==
    [][/\ \A u \in db'.unread \ db.unread : \E c \in Clients :
             /\ pc[c] = "emit_insert" /\ pc'[c] = "idle"
             /\ u.event_id = event_id[c].val
             /\ u.client_id \in ClientsIn(subscriptions[c])
       /\ \A c \in Clients :
             /\ (pc[c] = "emit_select" /\ pc'[c] = "emit_insert")
                  => ClientsIn(subscriptions'[c]) \subseteq SubscribersOf(call[c].label)
             /\ (pc[c] = "idle" /\ pc'[c] = "listen_clear")
                  => \A i \in 1..Len(result'[c]) :
                        \E u \in MarkersOf(c) : u.event_id = result'[c][i].id
             /\ (pc[c] = "listen_clear" /\ pc'[c] = "idle" /\ recent'[Len(recent')].status = "ok")
                  => recent'[Len(recent')].value = EventsOf(result[c])]_vars

\* A subscribe(c,l) has just returned, all calls before it had returned,
\* an event emitted to l before it is still in the log, and c has no
\* marker for it.
C9_SubscribedAfterEmit ==
    \E c \in Clients, l \in Labels :
        /\ driver.mode = "free"
        /\ \A d \in Clients : pc[d] = "idle"
        /\ recent = <<Completed(c, "subscribe", l, NoneData, "ok", <<>>)>>
        /\ \E e \in db.events :
              /\ e.label = l
              /\ ~\E u \in MarkersOf(c) : u.event_id = e.id

\* Whether the call that returned last is a sweep client d ran to its end.
SweptBy(d) ==
    /\ recent # <<>>
    /\ Last.client = d
    /\ Last.op \in {"sweep", "unsubscribe"}
    /\ Last.status = "ok"

\* C10: a sweep interleaved in another client's emit is safe: the sweep
\* does not delete the event being emitted, and the emit then completes
\* without error with a marker for every client of its subscriber snapshot.
C10_SweepDuringEmit ==
    [][\A c \in Clients : \A d \in Clients \ {c} :
          /\ (/\ pc[c] \in {"emit_select", "emit_insert"}
              /\ (Sweep(d) \/ UnsubscribeSweep(d)))
                => \E e \in db'.events : e.id = event_id[c].val
          /\ (/\ pc[c] = "emit_insert" /\ pc'[c] = "idle"
              /\ SweptBy(d))
                => /\ recent'[Len(recent')].status = "ok"
                   /\ \A x \in ClientsIn(subscriptions[c]) :
                         \E u \in db'.unread :
                            u.client_id = x /\ u.event_id = event_id[c].val]_vars

\* Whether the completed call r is a call of op by client c.
IsCall(r, op, c) == r.op = op /\ r.client = c

\* C11: a client is constructed stopped, is running when start() has
\* returned and is stopped again when stop() has returned.
C11_Lifecycle ==
    \A c \in Clients :
        /\ (\A i \in 1..Len(recent) : recent[i].client # c) => ~running[c]
        /\ (recent # <<>> /\ IsCall(Last, "start", c))
             => Last.status = "ok" /\ running[c]
        /\ (recent # <<>> /\ IsCall(Last, "stop", c))
             => Last.status = "ok" /\ ~running[c]

\* C12: stop() listens (and drops the events), then unsubscribes from "*",
\* then sweeps, then is stopped: a stop that has come to unsubscribe has
\* cleared the client's markers, one that has come to its own sweep has
\* removed the client's subscriptions, and when stop() has returned the
\* client is stopped, has no subscription and no marker, and its next
\* listen returns the empty list.
C12_StopCleansUp ==
    \A c \in Clients :
        /\ pc[c] = "stop_unsubscribe" => MarkersOf(c) = {}
        /\ pc[c] = "stop_sweep" => MarkersOf(c) = {} /\ RowsOf(c) = {}
        /\ (recent # <<>> /\ IsCall(Last, "stop", c))
             => /\ Last.status = "ok"
                /\ ~running[c]
                /\ RowsOf(c) = {}
                /\ MarkersOf(c) = {}
        /\ EndsWith(<<Stopped(c), Listened(c)>>)
             => /\ Last.status = "ok"
                /\ Returned(Last) = <<>>

\* C13: handle_event calls the handler currently registered for the
\* event's label exactly once with the event, and drops an event whose
\* label has no handler without error and without calling a handler; and
\* run(), entered with one event pending for a label with a handler,
\* raises nothing and calls that handler exactly once with that event.
C13_DispatchLoop ==
    \A c \in Clients :
        /\ (recent # <<>> /\ IsCall(Last, "handle_event", c))
             => /\ Last.status = "ok"
                /\ Last.value =
                     IF handlers[c][Last.label] = NoHandler THEN <<>>
                     ELSE <<[handler |-> handlers[c][Last.label],
                             event |-> Event(Last.label, Last.data)]>>
        /\ \A l \in Labels, h \in Handlers, d \in Payloads :
             (/\ Len(recent) >= 3
              /\ EndsWith(<<Registered(c, l, h), Emitted(c, l, d),
                            Call(Last.op, c, "", NoneData)>>)
              /\ Last.op \in {"run", "dispatch"})
             => /\ Last.op = "dispatch"
                /\ Len(Last.value) = 1
                /\ Last.value[1].handler = h
                /\ Last.value[1].event.label = l

\* The handler of the latest on_event(l) of client c that came with a
\* handler, NoHandler when there is none.
LastRegistered(c, l) ==
    LET calls == {i \in 1..Len(recent) :
                    /\ IsCall(recent[i], "on_event", c)
                    /\ recent[i].label = l
                    /\ recent[i].data # NoHandler}
    IN  IF calls = {} THEN NoHandler ELSE recent[Max(calls)].data

\* C14: the handler map of a client holds, for each label, the handler of
\* the latest registration for that label and nothing for a label never
\* registered, and on_event(l) returns with the client subscribed to l.
C14_HandlerRegistration ==
    \A c \in Clients :
        /\ \A l \in Labels : handlers[c][l] = LastRegistered(c, l)
        /\ (recent # <<>> /\ IsCall(Last, "on_event", c))
             => /\ Last.status = "ok"
                /\ Cardinality({r \in RowsOf(c) : r[1].label = Last.label}) = 1

\* What a caller sees of a completed call: whether it raised, and the
\* events it returned.
Outcome(r) == <<r.op, r.client, r.status = "ok", r.value>>

\* C15: the two backends are the same to their callers: every call of a
\* test run on PostgreSQL ends as the same call of the same test run on
\* SQLite ended, in success or error and in the events returned.
C15_BackendsAgree ==
    (driver.mode = "both" /\ driver.again)
    => /\ Len(recent) <= Len(driver.first)
       /\ \A i \in 1..Len(recent) : Outcome(recent[i]) = Outcome(driver.first[i])

\* The environment names one of the four supported tags, as create()
\* reads it: unset means development, and letter case is ignored.
Supported == EnvTag \in {"development", "testing", "staging", "production"}

\* No connection URI is supplied: YAPPERDB_URI is unset or empty.
NoUri == ~Truthy(Getenv("YAPPERDB_URI", Unset))

Credentials == Truthy(environ["CLIENT_ID"]) /\ Truthy(environ["CLIENT_SECRET"])

\* C17: with both credentials set, create() returns a SQLiteYapper for
\* CLIENT_ID (on the db given, when one is given) when ENV is unset,
\* development or testing, and a PostgreSQLYapper when ENV is staging or
\* production and the connection URI is passed as the keyword db_uri.
C17_BackendSelection ==
    (created # NotCalled /\ Credentials)
    => /\ (EnvTag \in {"development", "testing"} /\ DOMAIN kwargs \subseteq {"db"})
            => /\ created.class = "SQLiteYapper"
               /\ created.client_id = environ["CLIENT_ID"].val
               /\ "db" \in DOMAIN kwargs => created.db_uri = kwargs["db"]
       /\ (EnvTag \in {"staging", "production"} /\ DOMAIN kwargs = {"db_uri"})
            => /\ created.class = "PostgreSQLYapper"
               /\ created.client_id = environ["CLIENT_ID"].val

C19_MarkersReferenceEvents ==
    \A u \in db.unread : \E e \in db.events : e.id = u.event_id

\* A sweep has returned with a marker in the store.
C19_SweptWithMarkers ==
    /\ recent # <<>>
    /\ Last.op = "sweep"
    /\ Last.status = "ok"
    /\ db.unread # {}

\* C20: only a sweep deletes events.  No step of subscribe, emit, listen
\* or start removes an event row or changes its label or data; an event
\* row goes away only in a sweep statement (of _sweep called directly, at
\* the end of unsubscribe, or in stop), and only when no marker
\* references it.
C20_OnlySweepDeletesEvents ==
    [][\A e \in db.events :
          e \notin db'.events
          => /\ e \in Unreferenced
             /\ \E c \in Clients : Sweep(c) \/ UnsubscribeSweep(c)]_vars

\* A sweep has returned and left behind an event that has a marker, and
\* nothing else.
C20_SweptUnreferenced ==
    /\ recent # <<>>
    /\ Last.op \in {"sweep", "unsubscribe"}
    /\ Last.status = "ok"
    /\ db.events # {}
    /\ Unreferenced = {}

\* The label of the event a marker references.
LabelOf(u) == (CHOOSE e \in db.events : e.id = u.event_id).label

C22_FanOutIsSnapshot ==
    [][\A c \in Clients :
          EmitInsertUnread(c)
          => {<<u.client_id, u.event_id>> : u \in db'.unread \ db.unread}
             = {<<subscriptions[c][i], event_id[c].val>> :
                    i \in 1..Len(subscriptions[c])}]_vars

\* The errors a statement raises, as opposed to the errors of the Python
\* code around it.
StorageErrors ==
    {"OperationalError", "UndefinedTable", "ProgrammingError",
     "IntegrityError", "InvalidForeignKey"}

\* C23: a storage failure propagates, with no retry and no rollback.  When
\* a statement of emit, listen or sweep fails, the call is over with that
\* step and the store is as the statements before it left it; an emit whose
\* marker insert fails leaves its event in the log with no marker, and a
\* listen that fails at its select leaves the client's markers in place.
\* (With free clients `recent` holds a call exactly in the state after the
\* step that ended it.)
C23_FailuresPropagate ==
    [][( /\ driver.mode = "free"
         /\ recent' # <<>>
         /\ recent'[1].op \in {"emit", "listen", "sweep"}
         /\ recent'[1].status \in StorageErrors )
       => LET c == recent'[1].client
          IN  /\ db' = db
              /\ pc'[c] = "idle"
              /\ call'[c] = NoCall
              /\ pc[c] = "emit_insert"
                   => \A u \in db'.unread : u.event_id # event_id[c].val
              /\ pc[c] = "idle" /\ recent'[1].op = "listen"
                   => {u \in db'.unread : u.client_id = c} = MarkersOf(c)]_vars

\* An emit has failed at its marker insert and its event is in the log
\* with no marker.
C23_EmitFailedAtMarkers ==
    /\ recent # <<>>
    /\ Last.op = "emit"
    /\ Last.status = "ProgrammingError"
    /\ Unreferenced # {}

\* C24: the dispatch loop ends only by running becoming false: run() comes
\* to an end only by returning, with running false, once the batch it was
\* dispatching is done; while nothing sets running to false it goes on
\* listening.
C24_RunEndsWhenStopped ==
    \A c \in Clients :
        (recent # <<>> /\ IsCall(Last, "run", c))
        => /\ Last.status = "ok"
           /\ ~running[c]

\* The ids of events known to have been emitted: those of the rows in the
\* log and those the emits under way hold for the rows they inserted.
KnownIds ==
    {e.id : e \in db.events}
    \cup {event_id[d].val : d \in {x \in Clients : pc[x] \in {"emit_select", "emit_insert"}}}

\* C25: event ids are never reused: the id an emit obtains for its event
\* is greater than the id of every event emitted before it, whether that
\* event is still in the log or has been swept since.
C25_IdsNeverReused ==
    [][\A c \in Clients :
          (pc[c] = "idle" /\ pc'[c] = "emit_select")
          => \A id \in KnownIds : event_id'[c].val > id]_vars

\* The events client d has pending: what its next listen would return.
Pending(d) == {e \in db.events : \E u \in MarkersOf(d) : u.event_id = e.id}

\* Client c takes this step (with free clients: its position changes, or
\* it begins and ends a call in the one step), and the call the step
\* belongs to.
Actor(c) ==
    \/ pc'[c] # pc[c]
    \/ pc' = pc /\ recent' # <<>> /\ recent'[1].client = c
StepOp(c) == IF recent' # <<>> THEN recent'[1].op ELSE call'[c].op

\* C26: clients are isolated from one another: no step of subscribe,
\* unsubscribe, listen or stop by client c adds, removes or changes a
\* subscription row or a marker of another client d, or changes what d's
\* next listen returns.
C26_ClientIsolation ==
    [][driver.mode = "free"
       => \A c \in Clients :
             (Actor(c) /\ StepOp(c) \in {"subscribe", "unsubscribe", "listen", "stop"})
             => \A d \in Clients \ {c} :
                   /\ RowsOf(d)' = RowsOf(d)
                   /\ MarkersOf(d)' = MarkersOf(d)
                   /\ Pending(d)' = Pending(d)]_vars

\* A client has unsubscribed from the label another client holds a marker
\* and a subscription for.
C26_UnsubscribedBesideMarker ==
    /\ recent # <<>>
    /\ Last.op = "unsubscribe"
    /\ Last.status = "ok"
    /\ \E d \in Clients \ {Last.client} :
          \E u \in MarkersOf(d) : LabelOf(u) = Last.label

\* C27 as stated: once running is false run() invokes no further handler;
\* a step that passes an event to a handler of client c is taken only
\* while running is true for c, so the rest of a batch is dropped when a
\* handler calls stop().
Invoked(c) ==
    /\ Len(recent') = Len(recent) + 1
    /\ recent'[Len(recent')].op = "handler"
    /\ recent'[Len(recent')].client = c

StopCalls(c) ==
    {i \in 1..Len(recent) :
        /\ recent[i].op = "handler"
        /\ recent[i].client = c
        /\ recent[i].value = <<StopHandler>>}

====
